---- MODULE Spec2Model ----
(***************************************************************************)
(* A model of runtime_dependency_manager/manager.py: the declarative       *)
(* Package / ImportFrom builders and the RuntimeDependencyManager          *)
(* pipeline (probe -> install -> version check -> bind).                    *)
(*                                                                         *)
(* The host installer (pip), importlib.metadata.version and the import     *)
(* machinery are the environment.  The set of importable modules is state  *)
(* (`importable`); what pip and the version query answer for a package     *)
(* name is an input of each pipeline run (`oracle`).                        *)
(*                                                                         *)
(* Every public operation is one action; what the operation did, in order, *)
(* is left in `log`, the event trace of the last operation.                *)
(***************************************************************************)
EXTENDS Integers, Sequences, FiniteSets, TLC

\* ------------------------------------------------------------------ bounds

\* Total number of builder calls (package, import_module, from_module().
\* import_module, as_module, immediately_install_package) made on a manager.
MaxCalls == 3

\* Number of operations that run the probe (missing_packages, install(),
\* immediately_install_package) before the scope is left.
MaxRuns == 1

\* ---------------------------------------------------------------- universe

\* Module names the scripts import.  "mx" is a module whose import raises
\* something that is not an ImportError (it is found, and fails while loading).
Modules == {"m1", "m2"}
BrokenModules == {"mx"}
\* Attributes a module has once it is imported.
ModuleAttrs == {<<"m1", "x">>}
AttrNames == {"x", "y"}
Aliases == {"al"}
NoAlias == ""
NoFrom == ""
None == "None"

\* Keys of the caller's globals the model tracks, and the unbound marker.
GlobalKeys == Modules \cup AttrNames \cup Aliases
Unbound == <<"unbound", "", "">>
ModuleValue(m) == <<"module", m, "">>
AttrValue(m, a) == <<"attr", m, a>>

\* A version specifier clause is [op, v]; a specifier set is a sequence of
\* clauses.  NoSpec is version_spec=None.
Clause(op, v) == [op |-> op, v |-> v]
NoSpec == <<>>
\* The requirements a script declares: a distribution name and its version_spec
\* as written.  Installing distribution n provides module n.
Requirements ==
    {[name |-> "m1", version_spec |-> NoSpec],
     [name |-> "m2", version_spec |-> <<Clause(">=", 1), Clause("<", 2)>>]}
\* The modules a script imports names from.
FromModules == {"m1"}
\* "notfound" stands for PackageNotFoundError, "invalid" for a version string
\* packaging cannot parse.
VersionAnswers == {"notfound", "invalid", "0", "1", "2"}

\* ------------------------------------------------- packaging: specifier sets

\* str(SpecifierSet) joins the sorted strings of its clauses: the order is the
\* order of the clause strings, i.e. of the operator characters, then of the
\* version.
OpRank(op) ==
    CASE op = "!=" -> 1
      [] op = "<"  -> 2
      [] op = "<=" -> 3
      [] op = "==" -> 4
      [] op = ">"  -> 5
      [] op = ">=" -> 6
      [] OTHER     -> 7

ClauseKey(c) == OpRank(c.op) * 10 + c.v

ClauseSet(s) == {s[i] : i \in 1 .. Len(s)}

RECURSIVE SortedClauses(_)
SortedClauses(S) ==
    IF S = {} THEN <<>>
    ELSE LET c == CHOOSE x \in S : \A y \in S : ClauseKey(x) <= ClauseKey(y)
         IN <<c>> \o SortedClauses(S \ {c})

\* Package.__init__: str(Requirement(f'pkgname{version_spec or ">0"}').specifier)
Normalize(raw) ==
    IF raw = <<>> THEN <<Clause(">", 0)>>
    ELSE SortedClauses(ClauseSet(raw))

ClauseHolds(c, v) ==
    CASE c.op = "!=" -> v # c.v
      [] c.op = "<"  -> v < c.v
      [] c.op = "<=" -> v <= c.v
      [] c.op = "==" -> v = c.v
      [] c.op = ">"  -> v > c.v
      [] c.op = ">=" -> v >= c.v
      [] OTHER       -> FALSE

\* Version(installed_version): the number a version string stands for, or
\* InvalidVersion.
InvalidVersion == [valid |-> FALSE, v |-> 0]
ParseVersion(s) ==
    CASE s = "0" -> [valid |-> TRUE, v |-> 0]
      [] s = "1" -> [valid |-> TRUE, v |-> 1]
      [] s = "2" -> [valid |-> TRUE, v |-> 2]
      [] OTHER   -> InvalidVersion

\* _is_version_satisfying: an empty spec accepts everything, an unparsable
\* installed version is logged and rejected.
\* (a variant that tests the first clause of the specifier only)
IsVersionSatisfyingMutantFirstClause(installed_version, version_spec) ==
    IF version_spec = <<>> THEN TRUE
    ELSE IF ~ParseVersion(installed_version).valid THEN FALSE
    ELSE ClauseHolds(version_spec[1], ParseVersion(installed_version).v)
IsVersionSatisfying(installed_version, version_spec) ==
    IF version_spec = <<>> THEN TRUE
    ELSE IF ~ParseVersion(installed_version).valid THEN FALSE
    ELSE \A i \in 1 .. Len(version_spec) :
            ClauseHolds(version_spec[i], ParseVersion(installed_version).v)

\* ------------------------------------------------------------ the data model

\* Package.import_module / ImportFrom.import_module append one of these dicts.
DirectImport(m) == [type |-> "import", from |-> NoFrom, module |-> m, alias |-> NoAlias]
FromImport(f, m) == [type |-> "from", from |-> f, module |-> m, alias |-> NoAlias]

\* Package.__init__
NewPackage(name, raw, optional) ==
    [name |-> name, version_spec |-> Normalize(raw), optional |-> optional,
     imports |-> <<>>]

\* One event of the trace of an operation.
Event(ev, pkg, imp, arg) == [ev |-> ev, pkg |-> pkg, imp |-> imp, arg |-> arg]

\* ------------------------------------------------------- the import machinery

\* The module resolution boundary: importing module m, given the set of
\* modules that can currently be imported.
ResolveModule(m, mods) ==
    IF m \in BrokenModules THEN "OtherError"
    ELSE IF m \in mods THEN "ok"
    ELSE "ImportError"

\* The statement _try_import executes in a scratch namespace, once its source
\* module resolved with r: "ok", "ImportError" (caught: _try_import returns
\* False) or "OtherError" (propagates).
ExecImport(imp, r) ==
    IF imp.type = "from" /\ r = "ok" /\ <<imp.from, imp.module>> \notin ModuleAttrs
    THEN "ImportError"
    ELSE r

\* _try_import: exec("[from F ]import M[ as A]", {})
TryImport(imp, mods) ==
    ExecImport(imp, ResolveModule(IF imp.type = "from" THEN imp.from
                                  ELSE imp.module, mods))

\* What _are_imports_available answers when _try_import ended with r.
\* (a variant in which any failure of the import counts as unavailable)
AvailabilityMutantAnyFailure(r) ==
    IF r = "ok" THEN "True" ELSE "False"
Availability(r) ==
    IF r = "ok" THEN "True" ELSE IF r = "ImportError" THEN "False" ELSE r

\* _are_imports_available, from import number j on: the imports are tried in
\* order and the first that fails ends the loop (import number 0 stands for
\* the bare package name).  `events` are the events so far.
RECURSIVE ProbeImportsFrom(_, _, _, _, _)
\* (a variant that tries every import and answers for the last one)
ProbedImportMutantTriesAll(pkg, i, j, mods, events, r) ==
    IF r = "ok" \/ (r = "ImportError" /\ j < Len(pkg.imports))
    THEN ProbeImportsFrom(pkg, i, j + 1, mods,
                          Append(events, Event("try_import", i, j, <<r>>)))
    ELSE [result |-> Availability(r),
          events |-> Append(events, Event("try_import", i, j, <<r>>))]
ProbedImport(pkg, i, j, mods, events, r) ==
    IF r = "ok"
    THEN ProbeImportsFrom(pkg, i, j + 1, mods,
                          Append(events, Event("try_import", i, j, <<r>>)))
    ELSE [result |-> Availability(r),
          events |-> Append(events, Event("try_import", i, j, <<r>>))]

ProbeImportsFrom(pkg, i, j, mods, events) ==
    IF j > Len(pkg.imports) THEN [result |-> "True", events |-> events]
    ELSE ProbedImport(pkg, i, j, mods, events, TryImport(pkg.imports[j], mods))

ProbedName(i, r) ==
    [result |-> Availability(r), events |-> <<Event("try_import", i, 0, <<r>>)>>]

AreImportsAvailable(pkg, i, mods) ==
    IF pkg.imports # <<>>
    THEN ProbeImportsFrom(pkg, i, 1, mods, <<>>)
    ELSE ProbedName(i, TryImport(DirectImport(pkg.name), mods))

\* The two lists of _get_missing_packages (of package indices, in the order
\* met), what the pass raised, and its events.
NoneMissing ==
    [missing |-> <<>>, optional_missing |-> <<>>, raised |-> None,
     events |-> <<Event("get_missing", 0, 0, <<>>)>>]

\* The body of the loop of _get_missing_packages for package i, where
\* _are_imports_available answered a.
\* (a variant that puts a missing package at the head of the list)
SortedMutantPrepend(g, pkg, i, a) ==
    IF a.result = "True" THEN [g EXCEPT !.events = @ \o a.events]
    ELSE IF a.result = "False"
    THEN IF pkg.optional
         THEN [g EXCEPT !.optional_missing = Append(@, i),
                        !.events = @ \o a.events]
         ELSE [g EXCEPT !.missing = <<i>> \o @, !.events = @ \o a.events]
    ELSE [g EXCEPT !.raised = a.result, !.events = @ \o a.events]
\* (a variant that puts optional packages on the missing list too)
SortedMutantOptionalToo(g, pkg, i, a) ==
    IF a.result = "True" THEN [g EXCEPT !.events = @ \o a.events]
    ELSE IF a.result = "False"
    THEN [g EXCEPT !.missing = Append(@, i), !.events = @ \o a.events]
    ELSE [g EXCEPT !.raised = a.result, !.events = @ \o a.events]
Sorted(g, pkg, i, a) ==
    IF a.result = "True" THEN [g EXCEPT !.events = @ \o a.events]
    ELSE IF a.result = "False"
    THEN IF pkg.optional
         THEN [g EXCEPT !.optional_missing = Append(@, i),
                        !.events = @ \o a.events]
         ELSE [g EXCEPT !.missing = Append(@, i), !.events = @ \o a.events]
    ELSE [g EXCEPT !.raised = a.result, !.events = @ \o a.events]

RECURSIVE GetMissingFrom(_, _, _, _)
GetMissingNext(pkgs, i, mods, g) ==
    IF g.raised # None THEN g ELSE GetMissingFrom(pkgs, i + 1, mods, g)

GetMissingFrom(pkgs, i, mods, g) ==
    IF i > Len(pkgs) THEN g
    ELSE GetMissingNext(pkgs, i, mods,
            Sorted(g, pkgs[i], i, AreImportsAvailable(pkgs[i], i, mods)))

NamesOf(pkgs, idx) == [k \in 1 .. Len(idx) |-> pkgs[idx[k]].name]

\* logger.warning("Optional module not found: %s", ...)
WarnedOptional(pkgs, g) ==
    IF g.raised = None /\ g.optional_missing # <<>>
    THEN [g EXCEPT !.events =
            Append(@, Event("warn_optional", 0, 0,
                            NamesOf(pkgs, g.optional_missing)))]
    ELSE g

\* _get_missing_packages: one pass of the availability probe over the declared
\* packages, and the batched warning about the optional ones.
GetMissingPackages(pkgs, mods) ==
    WarnedOptional(pkgs, GetMissingFrom(pkgs, 1, mods, NoneMissing))

\* An attribute of the manager that holds a list of package indices, or is
\* not set.
NotSet == [set |-> FALSE, value |-> <<>>]
SetTo(v) == [set |-> TRUE, value |-> v]

\* getattr(self, '__missing_packages', None).  The assignment that follows it
\* is written inside the class, where the name is mangled to
\* _RuntimeDependencyManager__missing_packages; the string given to getattr is
\* not mangled, names an attribute nothing ever sets, and the lookup answers
\* its default.
\* (a variant that reads the attribute the assignment writes)
GetattrMissingPackagesMutantMangled(o) == o.mangled_missing_packages
GetattrMissingPackages(o) == NotSet

\* self.__missing_packages = self._get_missing_packages(), where the pass
\* ended as g.  Nothing is assigned when the pass raised.
Assigned(o, g) ==
    IF g.raised # None
    THEN [o EXCEPT !.log = @ \o g.events, !.raised = g.raised]
    ELSE [o EXCEPT !.log = @ \o g.events,
                   !.mangled_missing_packages = SetTo(g.missing)]

\* The missing_packages property, on a manager object o (a record of the
\* manager's and the environment's state, with the trace so far).  What it
\* returns is Returned(o') of the object o' it leaves.
\* (a variant whose probe runs its import statements in the caller's globals)
MissingPackagesPropertyMutantBinds(o) ==
    Assigned([o EXCEPT !.caller_globals =
                 [k \in GlobalKeys |->
                     IF k \in o.importable THEN ModuleValue(k) ELSE @[k]]],
             GetMissingPackages(o.packages, o.importable))
MissingPackagesProperty(o) ==
    IF ~GetattrMissingPackages(o).set
    THEN Assigned(o, GetMissingPackages(o.packages, o.importable))
    ELSE o

\* return self.__missing_packages
Returned(o) == o.mangled_missing_packages.value

\* ------------------------------------------------------------- the installer

\* What one run of pip, and the version query after it, answer for a package
\* name: pip's exit status, whether its stderr holds "No matching
\* distribution", the version importlib.metadata.version reports afterwards,
\* and whether the package's module can be imported afterwards.
PipAnswers ==
    [returncode : {1}, no_matching : BOOLEAN, version : {"notfound"},
     provides : {FALSE}]
    \cup [returncode : {0}, no_matching : {FALSE}, version : VersionAnswers,
          provides : {TRUE}]
    \cup {[returncode |-> 0, no_matching |-> TRUE, version |-> "1",
           provides |-> TRUE],
          [returncode |-> 0, no_matching |-> FALSE, version |-> "1",
           provides |-> FALSE]}

\* cmd_base.extend([flag, x]) for each x of xs, in order.
RECURSIVE FlagEach(_, _)
FlagEach(flag, xs) ==
    IF xs = <<>> THEN <<>>
    ELSE <<flag, Head(xs)>> \o FlagEach(flag, Tail(xs))

\* cmd_base of _install_missing_packages.
\* (a variant that puts the trusted hosts before the extra indexes)
CmdBaseMutantHostsFirst(o) ==
    <<"python", "-m", "pip", "install">>
    \o (IF o.index_url # None THEN <<"--index-url", o.index_url>> ELSE <<>>)
    \o FlagEach("--trusted-host", o.trusted_hosts)
    \o FlagEach("--extra-index-url", o.extra_index_urls)
CmdBase(o) ==
    <<"python", "-m", "pip", "install">>
    \o (IF o.index_url # None THEN <<"--index-url", o.index_url>> ELSE <<>>)
    \o FlagEach("--extra-index-url", o.extra_index_urls)
    \o FlagEach("--trusted-host", o.trusted_hosts)

\* The last argument: f"{pkg.name}{pkg.version_spec}", or the bare name when
\* the version_spec is empty.  The string is kept as its parts.
RequirementArg(pkg) ==
    IF pkg.version_spec # <<>> THEN <<pkg.name, pkg.version_spec>>
    ELSE <<pkg.name>>

\* How the result of subprocess.run is classified.
\* (a variant that looks at stderr before the exit status)
ClassifyMutantStderrFirst(answer) ==
    IF answer.no_matching THEN "DependentPackageNotFoundError"
    ELSE IF answer.returncode # 0 THEN "PackageInstallationError"
    ELSE None
Classify(answer) ==
    IF answer.returncode # 0
    THEN IF answer.no_matching THEN "DependentPackageNotFoundError"
         ELSE "PackageInstallationError"
    ELSE None

\* _check_version_compatibility
CheckVersionCompatibility(pkg, answer) ==
    IF answer.version = "notfound" THEN "DependentPackageNotFoundError"
    ELSE IF ~IsVersionSatisfying(answer.version, pkg.version_spec)
    THEN "VersionCompatibilityError"
    ELSE None

\* An exception leaves the operation.
Raise(o, i, j, e) ==
    [o EXCEPT !.raised = e, !.log = Append(@, Event("raise", i, j, <<e>>))]

\* What subprocess.run captured: result.stdout and result.stderr.
CapturedStdout == "stdout of pip"
CapturedStderr(answer) ==
    IF answer.no_matching THEN "No matching distribution" ELSE "stderr of pip"

\* The message the exception e is constructed with (its args), as the parts
\* of the f-string.
ErrorArgs(e, pkg, answer) ==
    IF e = "PackageInstallationError"
    THEN <<"Error installing package ", pkg.name>>
    ELSE IF e = "DependentPackageNotFoundError"
    THEN <<"Package ", pkg.name, " not found after installation">>
    ELSE <<"Installed version ", answer.version, " of ", pkg.name,
           " does not satisfy ", pkg.version_spec>>

\* An exception of the installer leaves the operation, with its message.
RaiseError(o, i, e, pkg, answer) ==
    [o EXCEPT !.raised = e,
              !.log = Append(@, Event("raise", i, 0,
                                      <<e, ErrorArgs(e, pkg, answer)>>))]

\* result = subprocess.run(cmd, ...) for package i: the invocation, and the
\* exit status and stderr it completed with.
RanPip(o, i, pkg, answer) ==
    [o EXCEPT !.log = @ \o
        <<Event("pip", i, 0, Append(CmdBase(o), RequirementArg(pkg))),
          Event("completed", i, 0,
                [returncode |-> answer.returncode,
                 no_matching |-> answer.no_matching,
                 stdout |-> CapturedStdout,
                 stderr |-> CapturedStderr(answer)])>>]

\* The environment after pip exited 0.
Provided(o, pkg, answer) ==
    IF answer.provides THEN [o EXCEPT !.importable = @ \cup {pkg.name}] ELSE o

\* installed_version = version(pkg.name), with what the query answered.
QueriedVersion(o, i, answer) ==
    [o EXCEPT !.log = Append(@, Event("version", i, 0, <<answer.version>>))]

\* The loop of _install_missing_packages, from the k-th of `missing` on.
RECURSIVE InstallFrom(_, _, _, _)
\* (a variant that goes on with the next package after a failed version check)
CheckedMutantGoesOn(o, missing, k, oracle, i, pkg, answer, v) ==
    IF v # None
    THEN InstallFrom(RaiseError(o, i, v, pkg, answer), missing, k + 1, oracle)
    ELSE InstallFrom(o, missing, k + 1, oracle)
Checked(o, missing, k, oracle, i, pkg, answer, v) ==
    IF v # None THEN RaiseError(o, i, v, pkg, answer)
    ELSE InstallFrom(o, missing, k + 1, oracle)

\* (a variant that queries the installed version whatever pip exited with)
AfterPipMutantQueriesFirst(o, missing, k, oracle, i, pkg, answer) ==
    IF Classify(answer) # None
    THEN RaiseError(QueriedVersion(o, i, answer), i, Classify(answer), pkg, answer)
    ELSE IF pkg.version_spec # <<>>
    THEN Checked(QueriedVersion(Provided(o, pkg, answer), i, answer), missing, k, oracle,
                 i, pkg, answer, CheckVersionCompatibility(pkg, answer))
    ELSE InstallFrom(Provided(o, pkg, answer), missing, k + 1, oracle)
AfterPip(o, missing, k, oracle, i, pkg, answer) ==
    IF Classify(answer) # None
    THEN RaiseError(o, i, Classify(answer), pkg, answer)
    ELSE IF pkg.version_spec # <<>>
    THEN Checked(QueriedVersion(Provided(o, pkg, answer), i, answer), missing, k, oracle,
                 i, pkg, answer, CheckVersionCompatibility(pkg, answer))
    ELSE InstallFrom(Provided(o, pkg, answer), missing, k + 1, oracle)

InstallOne(o, missing, k, oracle, i, pkg) ==
    AfterPip(RanPip(o, i, pkg, oracle[pkg.name]), missing, k, oracle, i, pkg,
             oracle[pkg.name])

InstallFrom(o, missing, k, oracle) ==
    IF k > Len(missing) THEN o
    ELSE InstallOne(o, missing, k, oracle, missing[k], o.packages[missing[k]])

InstallMissingPackages(o, missing, oracle) == InstallFrom(o, missing, 1, oracle)

\* ---------------------------------------------------------------- the binder

\* global_id = imp['alias'] if 'alias' in imp else imp['module']
GlobalId(imp) == IF imp.alias # NoAlias THEN imp.alias ELSE imp.module

\* The name _import_module gives to importlib.import_module: global_id for an
\* import, imp['from'] for a from-import.
ImportedName(imp) == IF imp.type = "import" THEN GlobalId(imp) ELSE imp.from

\* _import_module once importlib.import_module(name) ended with r.  An
\* ImportError or AttributeError is logged and swallowed; anything else
\* propagates.
Resolved(o, i, j, imp, name, r) ==
    IF r = "OtherError" THEN Raise(o, i, j, r)
    ELSE IF r = "ImportError"
    THEN [o EXCEPT !.log = Append(@, Event("log_error", i, j, <<r>>))]
    ELSE IF imp.type = "import"
    THEN [o EXCEPT !.caller_globals[GlobalId(imp)] = ModuleValue(name),
                   !.log = Append(@, Event("bind", i, j, <<GlobalId(imp)>>))]
    ELSE IF <<imp.from, imp.module>> \in ModuleAttrs
    THEN [o EXCEPT !.caller_globals[GlobalId(imp)] =
                        AttrValue(imp.from, imp.module),
                   !.log = Append(@, Event("bind", i, j, <<GlobalId(imp)>>))]
    ELSE [o EXCEPT !.log = Append(@, Event("log_error", i, j,
                                           <<"AttributeError">>))]

\* _import_module: import j of package i bound into the caller's globals.
ImportModule(o, i, j, imp) ==
    Resolved([o EXCEPT !.log = Append(@, Event("import_module", i, j,
                                               <<ImportedName(imp)>>))],
             i, j, imp, ImportedName(imp),
             ResolveModule(ImportedName(imp), o.importable))

\* _import_all_modules, from import j of package i on.
RECURSIVE ImportAllFrom(_, _, _)
ImportNext(o, i, j) ==
    IF o.raised # None THEN o ELSE ImportAllFrom(o, i, j + 1)

ImportAllFrom(o, i, j) ==
    IF i > Len(o.packages) THEN o
    ELSE IF j > Len(o.packages[i].imports) THEN ImportAllFrom(o, i + 1, 1)
    ELSE ImportNext(ImportModule(o, i, j, o.packages[i].imports[j]), i, j)

ImportAllModules(o) == ImportAllFrom(o, 1, 1)

\* ---------------------------------------------------------- the orchestrator

\* install(), after _install_missing_packages (if it was called) left o.
\* (a variant that binds whatever the installation raised)
InstallBindMutantAlways(o) == ImportAllModules(o)
InstallBind(o) ==
    IF o.raised # None THEN o ELSE ImportAllModules(o)

\* install(), after the missing_packages property was read for the argument.
InstallArgument(o, oracle) ==
    IF o.raised # None THEN o
    ELSE InstallBind(InstallMissingPackages(o, Returned(o), oracle))

\* install(), after the missing_packages property was read for the test.
InstallTest(o, oracle) ==
    IF o.raised # None THEN o
    ELSE IF Returned(o) # <<>>
    THEN InstallArgument(MissingPackagesProperty(o), oracle)
    ELSE InstallBind(o)

\* install()
Install(o, oracle) == InstallTest(MissingPackagesProperty(o), oracle)

\* logger.warning(f"Missing required runtime module: ...") for each of idx.
MissingWarnings(pkgs, idx) ==
    [k \in 1 .. Len(idx) |->
        Event("warn_missing", idx[k], 0,
              <<pkgs[idx[k]].name, pkgs[idx[k]].version_spec>>)]

\* __exit__ without install_if_missing, after the property was read for the
\* loop: the warnings and sys.exit(1).
\* (a variant that warns and does not exit)
ExitLoopMutantNoExit(o) ==
    IF o.raised # None THEN o
    ELSE [o EXCEPT !.log = @ \o MissingWarnings(o.packages, Returned(o))]
ExitLoop(o) ==
    IF o.raised # None THEN o
    ELSE [o EXCEPT !.log = @ \o MissingWarnings(o.packages, Returned(o))
                             \o <<Event("exit", 0, 0, <<"1">>)>>,
                   !.raised = "SystemExit"]

\* __exit__ without install_if_missing, after the property was read for the
\* test.
ExitTest(o) ==
    IF o.raised # None THEN o
    ELSE IF Returned(o) # <<>> THEN ExitLoop(MissingPackagesProperty(o))
    ELSE o

\* __exit__
\* (a variant that installs whatever install_if_missing says)
ExitMutantAlwaysInstall(o, oracle) == Install(o, oracle)
Exit(o, oracle) ==
    IF o.install_if_missing THEN Install(o, oracle)
    ELSE ExitTest(MissingPackagesProperty(o))

\* -------------------------------------------------------------------- state

VARIABLES
    packages,                 \* self.packages
    install_if_missing,       \* self.install_if_missing
    index_url,                \* self.index_url
    extra_index_urls,         \* self.extra_index_urls
    trusted_hosts,            \* self.trusted_hosts
    caller_globals,           \* self.caller_globals
    mangled_missing_packages, \* self._RuntimeDependencyManager__missing_packages
    importable,               \* environment: the modules an import finds
    phase,                    \* "open", "closed" (after __exit__) or "exited"
    calls,                    \* builder calls made so far
    runs,                     \* operations before __exit__ that ran the probe
    op,                       \* the last operation
    raised,                   \* what the last operation raised, or None
    log,                      \* the events of the last operation, in order
    session                   \* what the earlier operations on this manager did

vars == <<packages, install_if_missing, index_url, extra_index_urls,
          trusted_hosts, caller_globals, mangled_missing_packages, importable,
          phase, calls, runs, op, raised, log, session>>

\* The installer configurations a script assigns to its manager.
Configs ==
    {[index_url |-> "U", extra_index_urls |-> <<"X1", "X2">>,
      trusted_hosts |-> <<"H1">>]}

\* A session in which no operation has run yet.
NoSession == [installed |-> {}, fatal |-> {}]

\* The modules that can be imported when the script starts.
InitialModules == {{}, {"m1"}}

\* RuntimeDependencyManager.__init__
Init ==
    /\ packages = <<>>
    /\ install_if_missing \in BOOLEAN
    /\ index_url = None
    /\ extra_index_urls = <<>>
    /\ trusted_hosts = <<>>
    /\ caller_globals = [k \in GlobalKeys |-> Unbound]
    /\ mangled_missing_packages = NotSet
    /\ importable \in InitialModules
    /\ phase = "open"
    /\ calls = 0
    /\ runs = 0
    /\ op = "init"
    /\ raised = None
    /\ log = <<>>
    /\ session = NoSession

\* The manager and its environment as one value, at the start of an operation.
Self ==
    [packages |-> packages, install_if_missing |-> install_if_missing,
     index_url |-> index_url, extra_index_urls |-> extra_index_urls,
     trusted_hosts |-> trusted_hosts, caller_globals |-> caller_globals,
     mangled_missing_packages |-> mangled_missing_packages,
     importable |-> importable, raised |-> None, log |-> <<>>]

\* The requirements (package indices) for which pip exited 0 in the events l,
\* and those for which DependentPackageNotFoundError or
\* VersionCompatibilityError was raised.
InstalledIn(l) ==
    {l[k].pkg : k \in {n \in DOMAIN l : l[n].ev = "completed"
                                        /\ l[n].arg.returncode = 0}}

FatalIn(l) ==
    {l[k].pkg : k \in {n \in DOMAIN l :
                          l[n].ev = "raise"
                          /\ l[n].arg[1] \in {"DependentPackageNotFoundError",
                                              "VersionCompatibilityError"}}}

\* The record of a session after an operation with events l.
Seen(s, l) ==
    [installed |-> s.installed \cup InstalledIn(l),
     fatal |-> s.fatal \cup FatalIn(l)]

\* The state an operation leaves, from the value it computed.
Becomes(o, name, next_phase) ==
    /\ session' = Seen(session, o.log)
    /\ packages' = o.packages
    /\ caller_globals' = o.caller_globals
    /\ mangled_missing_packages' = o.mangled_missing_packages
    /\ importable' = o.importable
    /\ raised' = o.raised
    /\ log' = o.log
    /\ index_url' = o.index_url
    /\ extra_index_urls' = o.extra_index_urls
    /\ trusted_hosts' = o.trusted_hosts
    /\ op' = name
    /\ phase' = next_phase
    /\ UNCHANGED install_if_missing

\* ------------------------------------------------------------------ builders

\* Package.import_module
\* (a variant that puts the new import at the head of the list)
AppendImportMutantPrepend(o, i, imp) ==
    [o EXCEPT !.packages[i].imports = <<imp>> \o @]
AppendImport(o, i, imp) ==
    [o EXCEPT !.packages[i].imports = Append(@, imp)]

\* Package.import_modules: import_module for each name, in order.
RECURSIVE ImportModules(_, _, _)
ImportModules(o, i, modules) ==
    IF modules = <<>> THEN o
    ELSE ImportModules(AppendImport(o, i, DirectImport(Head(modules))), i,
                       Tail(modules))

\* ImportFrom.import_modules: import_module for each name, in order.
RECURSIVE FromImportModules(_, _, _, _)
FromImportModules(o, i, f, modules) ==
    IF modules = <<>> THEN o
    ELSE FromImportModules(AppendImport(o, i, FromImport(f, Head(modules))),
                           i, f, Tail(modules))

\* Package.as_module
\* (a variant that sets the alias of every import of the package)
SetAliasMutantAll(o, i, alias) ==
    [o EXCEPT !.packages[i].imports =
        [j \in DOMAIN @ |-> [@[j] EXCEPT !.alias = alias]]]
SetAlias(o, i, alias) ==
    IF o.packages[i].imports # <<>>
    THEN [o EXCEPT !.packages[i].imports[Len(o.packages[i].imports)].alias = alias]
    ELSE o

\* RuntimeDependencyManager.package
AddPackage(o, name, raw, optional) ==
    [o EXCEPT !.packages = Append(@, NewPackage(name, raw, optional))]

\* One builder call, which leaves the manager as o.
Built(o) ==
    /\ phase = "open"
    /\ calls < MaxCalls
    /\ Becomes(o, "declare", "open")
    /\ calls' = calls + 1
    /\ UNCHANGED runs

\* The argument lists the scripts give to import_modules.
ModuleLists == {<<"m1", "m2">>}
AttrLists == {<<"x", "y">>}

\* pkg.import_module(module_name), on the i-th package
ImportModuleCall(i, m) == Built(AppendImport(Self, i, DirectImport(m)))

\* pkg.import_modules(*modules)
ImportModulesCall(i, modules) == Built(ImportModules(Self, i, modules))

\* pkg.from_module(from_name).import_module(module_name)
FromImportModuleCall(i, f, a) == Built(AppendImport(Self, i, FromImport(f, a)))

\* pkg.from_module(from_name).import_modules(*modules)
FromImportModulesCall(i, f, modules) ==
    Built(FromImportModules(Self, i, f, modules))

\* pkg.as_module(alias)
AsModuleCall(i, alias) == Built(SetAlias(Self, i, alias))

\* mgr.package(name, version_spec, optional)
PackageCall(name, raw, optional) == Built(AddPackage(Self, name, raw, optional))

\* mgr.index_url = ...; mgr.extra_index_urls = ...; mgr.trusted_hosts = ...
ConfigureCall(c) ==
    Built([Self EXCEPT !.index_url = c.index_url,
                       !.extra_index_urls = c.extra_index_urls,
                       !.trusted_hosts = c.trusted_hosts])

DeclarePackage ==
    /\ phase = "open"
    /\ \E r \in Requirements, optional \in BOOLEAN :
          PackageCall(r.name, r.version_spec, optional)

DeclareImport ==
    \E i \in 1 .. Len(packages), m \in Modules \cup BrokenModules :
        ImportModuleCall(i, m)

DeclareImports ==
    \E i \in 1 .. Len(packages), modules \in ModuleLists :
        ImportModulesCall(i, modules)

DeclareFromImport ==
    \E i \in 1 .. Len(packages), f \in FromModules, a \in AttrNames :
        FromImportModuleCall(i, f, a)

DeclareFromImports ==
    \E i \in 1 .. Len(packages), f \in FromModules, modules \in AttrLists :
        FromImportModulesCall(i, f, modules)

DeclareAlias ==
    \E i \in 1 .. Len(packages), alias \in Aliases : AsModuleCall(i, alias)

Configure ==
    /\ phase = "open"
    /\ \E c \in Configs : ConfigureCall(c)

\* ------------------------------------------------------------ the operations

\* The names of the packages install() would hand to pip: those of the list
\* the missing_packages property returns, once it was read and left o.
NamesAsked(o) ==
    IF o.raised # None THEN {}
    ELSE {o.packages[Returned(o)[k]].name : k \in 1 .. Len(Returned(o))}

MissingNames(o) == NamesAsked(MissingPackagesProperty(o))

\* What pip and the version query answer in one operation, by package name,
\* for the packages the operation asks about.
Oracles(o) == [MissingNames(o) -> PipAnswers]

\* mgr.missing_packages
QueryMissing ==
    /\ phase = "open"
    /\ runs < MaxRuns
    /\ Becomes(MissingPackagesProperty(Self), "missing_packages", "open")
    /\ runs' = runs + 1
    /\ UNCHANGED calls

\* mgr.install()
CallInstall ==
    /\ phase = "open"
    /\ runs < MaxRuns
    /\ \E oracle \in Oracles(Self) :
          Becomes(Install(Self, oracle), "install", "open")
    /\ runs' = runs + 1
    /\ UNCHANGED calls

\* with mgr.immediately_install_package(...): the generator up to its yield.
\* by_keyword: the package name is given as name=..., and args is empty.
Declared(o, name, raw, optional, module_name) ==
    IF module_name # None
    THEN AppendImport(AddPackage(o, name, raw, optional), Len(o.packages) + 1,
                      DirectImport(module_name))
    ELSE AddPackage(o, name, raw, optional)

\* The except and else clauses, after install() left o.
Reraised(o, name, by_keyword) ==
    IF o.raised # None
    THEN IF by_keyword
         \* print(f"... `{args[0]}' ...") with no positional argument
         THEN Raise(o, 0, 0, "IndexError")
         ELSE [o EXCEPT !.log = Append(@, Event("print", 0, 0, <<name>>))]
    ELSE [o EXCEPT !.log = Append(@, Event("yield", 0, 0, <<>>))]

ImmediatelyInstallPackage(o, name, raw, optional, module_name, by_keyword, oracle) ==
    Reraised(Install(Declared(o, name, raw, optional, module_name), oracle),
             name, by_keyword)

CallImmediatelyInstall ==
    /\ phase = "open"
    /\ runs < MaxRuns
    /\ \E r \in Requirements, optional \in BOOLEAN,
          module_name \in {None} \cup Modules, by_keyword \in BOOLEAN :
       \* the builder calls it makes: package(), and import_module() if asked
       LET made == IF module_name # None THEN 2 ELSE 1
       IN /\ calls + made <= MaxCalls
          /\ calls' = calls + made
          /\ \E oracle \in Oracles(Declared(Self, r.name, r.version_spec,
                                            optional, module_name)) :
                Becomes(ImmediatelyInstallPackage(Self, r.name, r.version_spec,
                            optional, module_name, by_keyword, oracle),
                        "immediately_install_package", "open")
    /\ runs' = runs + 1

\* The end of the with block: mgr.__exit__(...)
Left(o) == Becomes(o, "exit", IF o.raised = "SystemExit" THEN "exited" ELSE "closed")

ScopeExit ==
    /\ phase = "open"
    /\ \E oracle \in Oracles(Self) : Left(Exit(Self, oracle))
    /\ UNCHANGED <<calls, runs>>

Next ==
    \/ DeclarePackage
    \/ DeclareImport
    \/ DeclareImports
    \/ DeclareFromImport
    \/ DeclareFromImports
    \/ DeclareAlias
    \/ Configure
    \/ QueryMissing
    \/ CallInstall
    \/ CallImmediatelyInstall
    \/ ScopeExit

Spec == Init /\ [][Next]_vars

\* ------------------------------------------------- the builders on their own

\* Declarations a script has made before: none, a package with an aliased
\* import, and a package with two aliased imports.
AliasedImport(imp, alias) == [imp EXCEPT !.alias = alias]

DeclaredBefore ==
    {<<>>,
     <<[NewPackage("m1", NoSpec, FALSE) EXCEPT
          !.imports = <<AliasedImport(DirectImport("m1"), "m2")>>]>>,
     <<[NewPackage("m1", NoSpec, FALSE) EXCEPT
          !.imports = <<AliasedImport(DirectImport("m1"), "m2"),
                        AliasedImport(FromImport("m1", "x"), "y")>>]>>}

\* A manager on which a script has made some declarations, and is about to
\* make up to MaxCalls more.
InitBuilders ==
    /\ packages \in DeclaredBefore
    /\ install_if_missing = FALSE
    /\ index_url = None
    /\ extra_index_urls = <<>>
    /\ trusted_hosts = <<>>
    /\ caller_globals = [k \in GlobalKeys |-> Unbound]
    /\ mangled_missing_packages = NotSet
    /\ importable = {}
    /\ phase = "open"
    /\ calls = 0
    /\ runs = 0
    /\ op = "init"
    /\ raised = None
    /\ log = <<>>
    /\ session = NoSession

NextBuilders ==
    \/ DeclarePackage
    \/ DeclareImport
    \/ DeclareImports
    \/ DeclareFromImport
    \/ DeclareFromImports
    \/ DeclareAlias

SpecBuilders == InitBuilders /\ [][NextBuilders]_vars

\* ------------------------------------------------- the terms of the properties

\* An ImportSpec resolves when its source module can be imported and, for a
\* from-import, holds the name.
Resolvable(imp, mods) ==
    IF imp.type = "from"
    THEN imp.from \in mods /\ <<imp.from, imp.module>> \in ModuleAttrs
    ELSE imp.module \in mods

\* A requirement is available when every one of its ImportSpecs resolves, or,
\* if it declares none, when its bare name does.
Available(pkg, mods) ==
    IF pkg.imports = <<>> THEN pkg.name \in mods
    ELSE \A j \in 1 .. Len(pkg.imports) : Resolvable(pkg.imports[j], mods)

\* The non-optional missing set, as package indices.
MissingRequired(pkgs, mods) ==
    {i \in 1 .. Len(pkgs) : ~pkgs[i].optional /\ ~Available(pkgs[i], mods)}

\* The probe pass returns: no import it tries raises anything but ImportError.
ProbeCompletes(pkgs, mods) ==
    GetMissingFrom(pkgs, 1, mods, NoneMissing).raised = None

\* The positions of the events of one kind in a trace.
EvsIn(l, ev) == {k \in DOMAIN l : l[k].ev = ev}

\* An installed version satisfies a constraint when it parses and every clause
\* of the constraint holds of it.
Satisfies(v, spec) ==
    /\ ParseVersion(v).valid
    /\ \A c \in ClauseSet(spec) : ClauseHolds(c, ParseVersion(v).v)

InstallErrors ==
    {"PackageInstallationError", "DependentPackageNotFoundError",
     "VersionCompatibilityError"}

\* The operations that run the pipeline (install()).
PipelineOps == {"exit", "install", "immediately_install_package"}

NothingBound == [k \in GlobalKeys |-> Unbound]

\* Some declared ImportSpec resolves in the environment the operation left.
SomeResolvable ==
    \E i \in 1 .. Len(packages) : \E j \in 1 .. Len(packages[i].imports) :
        Resolvable(packages[i].imports[j], importable)

\* ---------------------------------------------------------------- properties

\* C1: when a manager with install_if_missing = false is closed and the probe
\* finds at least one non-optional declared requirement unavailable, the
\* process exits with status 1, pip is never invoked, and the caller's
\* namespace is left as it was.
C1_FailFast ==
    [][(/\ op' = "exit"
        /\ ~install_if_missing
        /\ ProbeCompletes(packages, importable)
        /\ MissingRequired(packages, importable) # {})
       => /\ raised' = "SystemExit"
          /\ phase' = "exited"
          /\ \E k \in EvsIn(log', "exit") : log'[k].arg = <<"1">>
          /\ EvsIn(log', "pip") = {}
          /\ caller_globals' = caller_globals]_vars

\* A fail-fast exit with a declared import that resolves, and nothing bound.
C1_Witness ==
    /\ op = "exit"
    /\ ~install_if_missing
    /\ raised = "SystemExit"
    /\ MissingRequired(packages, importable) # {}
    /\ SomeResolvable
    /\ caller_globals = NothingBound

\* C2: in a pipeline run with install_if_missing = true, if a pip invocation
\* exits non-zero or a version check after it fails, the run raises the typed
\* error (which __exit__ and install() hand to their caller), attempts no
\* binding and leaves the caller's namespace as it was; and every pip
\* invocation and version query of a run comes before its first binding.
PipFailed(l) == \E k \in EvsIn(l, "completed") : l[k].arg.returncode # 0

VersionCheckFailed(l, pkgs) ==
    \E k \in EvsIn(l, "version") :
        ~Satisfies(l[k].arg[1], pkgs[l[k].pkg].version_spec)

C2_InstallBeforeBind ==
    [][(op' \in PipelineOps /\ install_if_missing)
       => /\ \A b \in EvsIn(log', "import_module") \cup EvsIn(log', "bind") :
                \A k \in EvsIn(log', "pip") \cup EvsIn(log', "version") : k < b
          /\ (PipFailed(log') \/ VersionCheckFailed(log', packages'))
             => /\ \E k \in EvsIn(log', "raise") :
                      log'[k].arg[1] \in InstallErrors
                /\ op' \in {"exit", "install"} => raised' \in InstallErrors
                /\ EvsIn(log', "import_module") = {}
                /\ EvsIn(log', "bind") = {}
                /\ caller_globals' = caller_globals]_vars

\* A scope exit that installed, failed the version check, and bound nothing
\* although a declared import resolves.
C2_Witness ==
    /\ op = "exit"
    /\ install_if_missing
    /\ raised = "VersionCompatibilityError"
    /\ EvsIn(log, "pip") # {}
    /\ SomeResolvable
    /\ caller_globals = NothingBound

\* C3: whenever a session is closed without fail-fast termination and without
\* an error, binding is attempted for every ImportSpec of every declared
\* requirement, in declaration order, whether install_if_missing is true or
\* false.
RECURSIVE ImportSpecsFrom(_, _)
ImportSpecsFrom(pkgs, i) ==
    IF i > Len(pkgs) THEN <<>>
    ELSE [j \in 1 .. Len(pkgs[i].imports) |-> <<i, j>>]
         \o ImportSpecsFrom(pkgs, i + 1)

IsAttempt(e) == e.ev = "import_module"

Attempts(l) ==
    [k \in 1 .. Len(SelectSeq(l, IsAttempt)) |->
        <<SelectSeq(l, IsAttempt)[k].pkg, SelectSeq(l, IsAttempt)[k].imp>>]

C3_BindsAllOnClose ==
    (op = "exit" /\ phase = "closed" /\ raised = None)
    => Attempts(log) = ImportSpecsFrom(packages, 1)

\* C4, as stated: pip is invoked only if install_if_missing is true and the
\* non-optional missing set is non-empty.
C4_OnlyIfFlagAndMissing ==
    [][EvsIn(log', "pip") # {}
       => /\ install_if_missing
          /\ MissingRequired(packages', importable) # {}]_vars

\* C4, amended: pip is invoked only for the members of the non-optional missing
\* set the operation found, and at scope exit only if install_if_missing is
\* true; install() and immediately_install_package do not look at the flag.
C4_OnlyForMissing ==
    [][\A k \in EvsIn(log', "pip") :
          /\ log'[k].pkg \in MissingRequired(packages', importable)
          /\ op' = "exit" => install_if_missing]_vars

\* install() on a manager with install_if_missing = false ran pip.
C4_Witness ==
    /\ op = "install"
    /\ ~install_if_missing
    /\ EvsIn(log, "pip") # {}

\* C5: an optional requirement is never handed to pip, is never reported as
\* missing, is never in the missing set, and a fail-fast exit always has a
\* non-optional requirement that is unavailable.
C5_OptionalNeverInstalled ==
    /\ \A k \in EvsIn(log, "pip") : ~packages[log[k].pkg].optional
    /\ \A k \in EvsIn(log, "warn_missing") : ~packages[log[k].pkg].optional
    /\ \A k \in DOMAIN mangled_missing_packages.value :
          ~packages[mangled_missing_packages.value[k]].optional
    /\ raised = "SystemExit" => MissingRequired(packages, importable) # {}

\* A scope exit that installed a package and returned, with an optional
\* requirement still unavailable.
C5_Witness ==
    /\ op = "exit"
    /\ raised = None
    /\ EvsIn(log, "pip") # {}
    /\ \E i \in 1 .. Len(packages) :
          packages[i].optional /\ ~Available(packages[i], importable)

\* The ImportSpec an event is about, the key it is bound under, and the value
\* its declaration names.
ImpOf(e) == packages[e.pkg].imports[e.imp]

DeclaredValue(imp) ==
    IF imp.type = "from" THEN AttrValue(imp.from, imp.module)
    ELSE ModuleValue(imp.module)

SourceModule(imp) == IF imp.type = "from" THEN imp.from ELSE imp.module

\* No later binding attempt of the trace writes the key of attempt k.
LastForKey(l, k) ==
    \A k2 \in EvsIn(l, "import_module") :
        k2 > k => GlobalId(ImpOf(l[k2])) # GlobalId(ImpOf(l[k]))

\* C6: binding a Direct ImportSpec (target T, alias A) resolves the module
\* named T and stores it under A, or under T without an alias; binding a From
\* ImportSpec (source M, target T, alias A) resolves M and stores its
\* attribute T under A-or-T.
C6_BindsDeclaredTarget ==
    \A k \in EvsIn(log, "import_module") :
        /\ log[k].arg = <<SourceModule(ImpOf(log[k]))>>
        /\ (Resolvable(ImpOf(log[k]), importable) /\ LastForKey(log, k))
           => caller_globals[GlobalId(ImpOf(log[k]))]
                = DeclaredValue(ImpOf(log[k]))

\* C7: when the only failures of a binding pass are unresolvable modules and
\* missing attributes, each is logged and nothing else: every ImportSpec of
\* every declared requirement is attempted, those that resolve are bound, and
\* the operation raises nothing.
NoBrokenImport ==
    \A i \in 1 .. Len(packages) : \A j \in 1 .. Len(packages[i].imports) :
        SourceModule(packages[i].imports[j]) \notin BrokenModules

C7_BindErrorsIsolated ==
    (/\ op \in PipelineOps
     /\ EvsIn(log, "import_module") # {}
     /\ NoBrokenImport)
    => /\ raised = None
       /\ Attempts(log) = ImportSpecsFrom(packages, 1)
       /\ \A k \in EvsIn(log, "import_module") :
             IF Resolvable(ImpOf(log[k]), importable)
             THEN LastForKey(log, k)
                  => caller_globals[GlobalId(ImpOf(log[k]))]
                       = DeclaredValue(ImpOf(log[k]))
             ELSE k < Len(log) /\ log[k + 1].ev = "log_error"

\* C8: the missing set is memoized: an operation runs the probe pass, and
\* emits the optional-missing warning, at most once before its first pip
\* invocation, and not at all when the operation just before it was a query of
\* missing_packages.
BeforeInstall(l, ev) ==
    Cardinality({k \in EvsIn(l, ev) : \A p \in EvsIn(l, "pip") : k < p})

C8_ProbedOnce ==
    [][/\ BeforeInstall(log', "get_missing")
            <= (IF op = "missing_packages" /\ raised = None THEN 0 ELSE 1)
       /\ BeforeInstall(log', "warn_optional")
            <= (IF op = "missing_packages" /\ raised = None THEN 0 ELSE 1)]_vars

\* C9: a pip invocation that exits 0 raises nothing, whatever its stderr; one
\* that exits non-zero with "No matching distribution" in stderr raises
\* DependentPackageNotFoundError; any other non-zero exit raises
\* PackageInstallationError.
RaisesAfter(l, k, e) ==
    k < Len(l) /\ l[k + 1].ev = "raise" /\ l[k + 1].arg[1] = e

NoRaiseAfter(l, k) == k = Len(l) \/ l[k + 1].ev # "raise"

C9_PipResultClassified ==
    \A k \in EvsIn(log, "completed") :
        IF log[k].arg.returncode = 0 THEN NoRaiseAfter(log, k)
        ELSE IF log[k].arg.no_matching
        THEN RaisesAfter(log, k, "DependentPackageNotFoundError")
        ELSE RaisesAfter(log, k, "PackageInstallationError")

\* pip exited 0 with "No matching distribution" in stderr, and the operation
\* went on and returned.
C9_Witness ==
    /\ raised = None
    /\ \E k \in EvsIn(log, "completed") :
          log[k].arg.returncode = 0 /\ log[k].arg.no_matching

\* C10: after pip exits 0 for a requirement with a declared constraint, the
\* installed version is queried; the check raises
\* DependentPackageNotFoundError if the query finds no such package,
\* VersionCompatibilityError if the version it reports does not satisfy the
\* constraint, and nothing if it does.
DeclaredConstraint(pkg) == pkg.version_spec # Normalize(NoSpec)

C10_VersionChecked ==
    /\ \A k \in EvsIn(log, "completed") :
          (log[k].arg.returncode = 0 /\ DeclaredConstraint(packages[log[k].pkg]))
          => k < Len(log) /\ log[k + 1].ev = "version"
    /\ \A k \in EvsIn(log, "version") :
          DeclaredConstraint(packages[log[k].pkg])
          => IF log[k].arg = <<"notfound">>
             THEN RaisesAfter(log, k, "DependentPackageNotFoundError")
             ELSE IF ~Satisfies(log[k].arg[1], packages[log[k].pkg].version_spec)
             THEN RaisesAfter(log, k, "VersionCompatibilityError")
             ELSE NoRaiseAfter(log, k)

\* A scope exit that installed a requirement declared with >=1,<2, found
\* version 1 and returned.
C10_Witness ==
    /\ op = "exit"
    /\ raised = None
    /\ \E k \in EvsIn(log, "version") :
          /\ DeclaredConstraint(packages[log[k].pkg])
          /\ log[k].arg = <<"1">>

\* C11: a requirement declared without a constraint accepts every installed
\* version: after pip exits 0 for it the installed version is not queried and
\* no VersionCompatibilityError is raised for it.
C11_NoCheckWithoutConstraint ==
    \A k \in EvsIn(log, "completed") :
        (log[k].arg.returncode = 0 /\ ~DeclaredConstraint(packages[log[k].pkg]))
        => /\ k = Len(log) \/ log[k + 1].ev # "version"
           /\ \A r \in EvsIn(log, "raise") :
                 log[r].pkg = log[k].pkg
                 => log[r].arg[1] # "VersionCompatibilityError"

\* C12: the availability probe leaves the caller's namespace as it was,
\* whether it finds requirements available, unavailable, or raises: a query
\* of missing_packages, and any operation that did nothing but probe, changes
\* no key of caller_globals.
BeyondProbe == {"pip", "completed", "version", "import_module", "bind", "log_error"}

OnlyProbed(l) == \A k \in DOMAIN l : l[k].ev \notin BeyondProbe

C12_ProbeLeavesNamespace ==
    [][(op' = "missing_packages" \/ (op' \in PipelineOps /\ OnlyProbed(log')))
       => caller_globals' = caller_globals]_vars

\* A query of missing_packages that found one import resolving and another
\* not.
C12_Witness ==
    /\ op = "missing_packages"
    /\ \E k \in EvsIn(log, "try_import") : log[k].arg = <<"ok">>
    /\ \E k \in EvsIn(log, "try_import") : log[k].arg = <<"ImportError">>
    /\ caller_globals = NothingBound

\* C13: every phase goes through the requirements in declaration order.  Each
\* probe pass starts at the first requirement, goes on to the next import of
\* the same requirement or to the next requirement, and ends at the last one
\* unless it raises; pip is invoked once per non-optional missing requirement,
\* in declaration order, up to the first failure; binding attempts the
\* ImportSpecs requirement by requirement, and import by import, up to an
\* error that propagates.
IsPrefix(a, b) ==
    Len(a) <= Len(b) /\ \A k \in 1 .. Len(a) : a[k] = b[k]

\* The members of a set of indices, in increasing order.
Ascending(S) ==
    [k \in 1 .. Cardinality(S) |->
        CHOOSE i \in S : Cardinality({j \in S : j < i}) = k - 1]

IsPip(e) == e.ev = "pip"

PipOrder(l) == [k \in 1 .. Len(SelectSeq(l, IsPip)) |-> SelectSeq(l, IsPip)[k].pkg]

ProbeInOrder(l, n) ==
    \A k \in EvsIn(l, "try_import") :
        /\ k > 1
        /\ l[k - 1].ev \in {"get_missing", "try_import"}
        /\ l[k - 1].ev = "get_missing" => l[k].pkg = 1
        /\ l[k - 1].ev = "try_import"
           => \/ l[k].pkg = l[k - 1].pkg /\ l[k].imp = l[k - 1].imp + 1
              \/ l[k].pkg = l[k - 1].pkg + 1
        /\ (/\ l[k].arg # <<"OtherError">>
            /\ k = Len(l) \/ l[k + 1].ev # "try_import")
           => l[k].pkg = n

RanInstall == op' \in {"install", "immediately_install_package"}
              \/ (op' = "exit" /\ install_if_missing)

Interleaved(flag, xs) ==
    [k \in 1 .. 2 * Len(xs) |-> IF k % 2 = 1 THEN flag ELSE xs[k \div 2]]

ExpectedCommand(pkg) ==
    <<"python", "-m", "pip", "install">>
    \o (IF index_url = None THEN <<>> ELSE <<"--index-url", index_url>>)
    \o Interleaved("--extra-index-url", extra_index_urls)
    \o Interleaved("--trusted-host", trusted_hosts)
    \o << <<pkg.name, pkg.version_spec>> >>

C14_InstallerArguments ==
    \A k \in EvsIn(log, "pip") :
        log[k].arg = ExpectedCommand(packages[log[k].pkg])

\* pip was run for a requirement with a declared constraint by a manager with
\* an index URL, two extra indexes and a trusted host.
C14_Witness ==
    /\ index_url = "U"
    /\ extra_index_urls = <<"X1", "X2">>
    /\ trusted_hosts = <<"H1">>
    /\ \E k \in EvsIn(log, "pip") : DeclaredConstraint(packages[log[k].pkg])

\* C15: at the scope exit of a manager with install_if_missing = true, if pip
\* exits 0 for every requirement it is run for and every version reported for
\* a requirement with a declared constraint satisfies it, the exit raises
\* nothing and every ImportSpec of the installed requirements that resolves is
\* bound under its alias-or-name to what it declares.
InstalledAndSatisfied(l) ==
    /\ EvsIn(l, "pip") # {}
    /\ \A k \in EvsIn(l, "completed") : l[k].arg.returncode = 0
    /\ \A k \in EvsIn(l, "version") :
          DeclaredConstraint(packages[l[k].pkg])
          => Satisfies(l[k].arg[1], packages[l[k].pkg].version_spec)

C15_InstalledThenBound ==
    (/\ op = "exit"
     /\ install_if_missing
     /\ NoBrokenImport
     /\ InstalledAndSatisfied(log))
    => /\ raised = None
       /\ Attempts(log) = ImportSpecsFrom(packages, 1)
       /\ \A a \in EvsIn(log, "import_module") :
             (/\ \E k \in EvsIn(log, "pip") : log[k].pkg = log[a].pkg
              /\ Resolvable(ImpOf(log[a]), importable)
              /\ LastForKey(log, a))
             => caller_globals[GlobalId(ImpOf(log[a]))]
                  = DeclaredValue(ImpOf(log[a]))

\* C16: every import builder appends at the end of the requirement's imports,
\* one entry per name in argument order, and leaves the earlier entries and
\* the other requirements as they were: import_module(m) appends Direct(m),
\* import_modules(m1, ..) appends Direct(m1), .., from_module(f).import_module(a)
\* appends From(f, a), from_module(f).import_modules(a1, ..) appends
\* From(f, a1), ...
DirectSpec(m) == [type |-> "import", from |-> NoFrom, module |-> m, alias |-> NoAlias]

FromSpec(f, a) == [type |-> "from", from |-> f, module |-> a, alias |-> NoAlias]

\* The step appended `specs` to the imports of package i and changed nothing
\* else of the declarations.
Appended(i, specs) ==
    /\ Len(packages') = Len(packages)
    /\ \A p \in 1 .. Len(packages) : p # i => packages'[p] = packages[p]
    /\ packages'[i].name = packages[i].name
    /\ packages'[i].version_spec = packages[i].version_spec
    /\ packages'[i].optional = packages[i].optional
    /\ packages'[i].imports = packages[i].imports \o specs

C16_ImportsAppendInOrder ==
    [][\A i \in 1 .. Len(packages) :
          /\ \A m \in Modules \cup BrokenModules :
                ImportModuleCall(i, m) => Appended(i, <<DirectSpec(m)>>)
          /\ \A ms \in ModuleLists :
                ImportModulesCall(i, ms)
                => Appended(i, [k \in 1 .. Len(ms) |-> DirectSpec(ms[k])])
          /\ \A f \in FromModules :
                /\ \A a \in AttrNames :
                      FromImportModuleCall(i, f, a)
                      => Appended(i, <<FromSpec(f, a)>>)
                /\ \A as \in AttrLists :
                      FromImportModulesCall(i, f, as)
                      => Appended(i, [k \in 1 .. Len(as) |-> FromSpec(f, as[k])])
      ]_vars

\* import_modules('m1', 'm2') then from_module('m1').import_module('x') left
\* [Direct(m1), Direct(m2), From(m1, x)].
C16_Witness ==
    \E i \in 1 .. Len(packages) :
        packages[i].imports =
            <<DirectSpec("m1"), DirectSpec("m2"), FromSpec("m1", "x")>>

\* C17: as_module(alias) sets the alias of the last ImportSpec of the
\* requirement, whether or not it had one, leaves the number of ImportSpecs,
\* every earlier ImportSpec and every other requirement as they were, and
\* changes nothing when the requirement has no ImportSpecs.
C17_AliasOnLastOnly ==
    [][\A i \in 1 .. Len(packages) : \A alias \in Aliases :
          AsModuleCall(i, alias)
          => IF packages[i].imports = <<>> THEN packages' = packages
             ELSE /\ Len(packages') = Len(packages)
                  /\ \A p \in 1 .. Len(packages) :
                        p # i => packages'[p] = packages[p]
                  /\ packages'[i].name = packages[i].name
                  /\ packages'[i].version_spec = packages[i].version_spec
                  /\ packages'[i].optional = packages[i].optional
                  /\ Len(packages'[i].imports) = Len(packages[i].imports)
                  /\ \A j \in 1 .. Len(packages[i].imports) - 1 :
                        packages'[i].imports[j] = packages[i].imports[j]
                  /\ packages'[i].imports[Len(packages[i].imports)]
                       = [type |-> packages[i].imports[Len(packages[i].imports)].type,
                          from |-> packages[i].imports[Len(packages[i].imports)].from,
                          module |-> packages[i].imports[Len(packages[i].imports)].module,
                          alias |-> alias]]_vars

\* One call, as_module('al'), on a package whose two imports were aliased m2
\* and y: the second is now aliased al, the first still m2.
C17_Witness ==
    /\ calls = 1
    /\ Len(packages) = 1
    /\ Len(packages[1].imports) = 2
    /\ packages[1].imports[1].alias = "m2"
    /\ packages[1].imports[2] = [FromSpec("m1", "x") EXCEPT !.alias = "al"]

\* The events at which an exception leaves the pipeline: a raise, or a probe
\* whose import failed with something other than ImportError.
Thrown(l) ==
    {k \in DOMAIN l :
        \/ l[k].ev = "raise"
        \/ l[k].ev = "try_import" /\ l[k].arg = <<"OtherError">>}

FirstThrown(l) == CHOOSE k \in Thrown(l) : \A j \in Thrown(l) : k <= j

\* C18: when anything raises inside immediately_install_package, the caller
\* receives that same exception and the body of the with block does not run
\* (the generator does not reach its yield); when nothing raises, it runs.
C18_ReraisesSame ==
    op = "immediately_install_package"
    => IF Thrown(log) # {}
       THEN /\ raised = log[FirstThrown(log)].arg[1]
            /\ EvsIn(log, "yield") = {}
       ELSE /\ raised = None
            /\ EvsIn(log, "yield") # {}

\* The text after "Missing required runtime module: " that the claim expects
\* for a requirement: its name, then its constraint if one was declared.
ExpectedWarning(pkg) ==
    IF DeclaredConstraint(pkg) THEN <<pkg.name, pkg.version_spec>>
    ELSE <<pkg.name>>

SameText(a, b) ==
    /\ Len(a) = Len(b)
    /\ \A n \in 1 .. Len(a) : a[n] = b[n]

\* C19: on fail-fast termination the warning lines are, in order, one per
\* missing non-optional requirement in declaration order (none for any other
\* requirement), each made of the requirement's name followed by its declared
\* normalized constraint, and of the name alone when none was declared.
C19_WarningLines ==
    raised = "SystemExit"
    => /\ Len(Ascending(EvsIn(log, "warn_missing")))
            = Len(Ascending(MissingRequired(packages, importable)))
       /\ \A k \in 1 .. Len(Ascending(EvsIn(log, "warn_missing"))) :
             /\ log[Ascending(EvsIn(log, "warn_missing"))[k]].pkg
                  = Ascending(MissingRequired(packages, importable))[k]
             /\ SameText(log[Ascending(EvsIn(log, "warn_missing"))[k]].arg,
                         ExpectedWarning(packages[
                             Ascending(MissingRequired(packages, importable))[k]]))

\* x is one of the parts of the value an exception carries.
Carries(value, x) == \E n \in DOMAIN value : value[n] = x

\* The words of a command line before the requirement itself.
CommandWords(cmd) == {cmd[n] : n \in 1 .. Len(cmd) - 1}

\* C20: the PackageInstallationError raised after the installer exited
\* non-zero carries, in the value the caller receives, the command line that
\* failed and the stdout and stderr captured from it.
C20_ErrorCarriesCommandAndOutput ==
    \A k \in EvsIn(log, "raise") :
       log[k].arg[1] = "PackageInstallationError"
       => /\ k > 2
          /\ log[k - 2].ev = "pip"
          /\ log[k - 1].ev = "completed"
          /\ \A w \in CommandWords(log[k - 2].arg) : Carries(log[k].arg[2], w)
          /\ Carries(log[k].arg[2], log[k - 1].arg.stdout)
          /\ Carries(log[k].arg[2], log[k - 1].arg.stderr)

\* The requirements pip is invoked for in the events l.
PipFor(l) == {l[k].pkg : k \in EvsIn(l, "pip")}

\* C21: once DependentPackageNotFoundError or VersionCompatibilityError was
\* raised for a requirement, pip is not invoked for that requirement again on
\* this manager: not later in the same operation, and not by any later
\* operation (a scope exit after immediately_install_package included).
C21_FatalNotRetried ==
    [][/\ \A i \in session.fatal : i \notin PipFor(log')
       /\ \A r \in EvsIn(log', "raise") :
             log'[r].arg[1] \in {"DependentPackageNotFoundError",
                                 "VersionCompatibilityError"}
             => \A k \in EvsIn(log', "pip") : k < r
      ]_vars

\* The events of the installer for one requirement after its invocation.
IsInstallStep(e) == e.ev \in {"completed", "version"}

\* The position of the last pip event before position n of l (0 if none).
LastPipBefore(l, n) ==
    IF \E k \in EvsIn(l, "pip") : k < n
    THEN CHOOSE k \in EvsIn(l, "pip") :
            k < n /\ \A j \in EvsIn(l, "pip") : j < n => j <= k
    ELSE 0

\* The positions at which the installation of l fails: pip exits non-zero, or
\* one of the installer's errors is raised.
InstallFailures(l) ==
    {k \in DOMAIN l :
        \/ l[k].ev = "completed" /\ l[k].arg.returncode # 0
        \/ l[k].ev = "raise" /\ l[k].arg[1] \in InstallErrors}

\* C22: installation proceeds one requirement at a time.  The completion of
\* pip and the version query of a requirement come after its own pip
\* invocation and before the next one; pip is invoked at most once per
\* requirement, in the order of the missing list; after the first failure of
\* pip or of a version check there is no pip invocation and no version query;
\* and no module that could be imported before can no longer be.
C22_OneAtATime ==
    [][/\ \A n \in DOMAIN log' :
             IsInstallStep(log'[n])
             => /\ LastPipBefore(log', n) # 0
                /\ log'[LastPipBefore(log', n)].pkg = log'[n].pkg
       /\ \A k \in EvsIn(log', "pip") :
             /\ k < Len(log') /\ log'[k + 1].ev = "completed"
             /\ \A j \in EvsIn(log', "pip") : j < k => log'[j].pkg < log'[k].pkg
       /\ \A f \in InstallFailures(log') : \A n \in DOMAIN log' :
             n > f => log'[n].ev \notin {"pip", "version", "completed"}
       /\ importable \subseteq importable'
      ]_vars

\* Three requirements were missing; the first was installed and checked, pip
\* failed for the second, and the third was never handed to pip.
C22_Witness ==
    /\ Len(packages) = 3
    /\ raised \in InstallErrors
    /\ PipFor(log) = {1, 2}
    /\ \E k \in EvsIn(log, "version") : log[k].pkg = 1
    /\ \E k \in EvsIn(log, "raise") : log[k].pkg = 2
    /\ ~packages[3].optional
    /\ \E k \in EvsIn(log, "try_import") :
          log[k].pkg = 3 /\ log[k].arg = <<"ImportError">>
    /\ packages[1].name \in importable

\* The position at which the first probe pass of the events l ends.
FirstPassEnd(l) ==
    IF \E k \in EvsIn(l, "get_missing") : k > 1
    THEN CHOOSE k \in EvsIn(l, "get_missing") :
            k > 1 /\ \A j \in EvsIn(l, "get_missing") : j > 1 => k <= j
    ELSE Len(l) + 1

\* The imports tried for requirement i in the first probe pass of l, in order.
TriedFor(l, i) ==
    SelectSeq(SubSeq(l, 1, FirstPassEnd(l) - 1),
              LAMBDA e : e.ev = "try_import" /\ e.pkg = i)

\* What the claim expects the probe of requirement pkg to try: its ImportSpecs
\* in declaration order up to and including the first that does not resolve,
\* or the bare name (import number 0) if it declares none.
FirstUnresolved(pkg, mods) ==
    IF \E j \in 1 .. Len(pkg.imports) : ~Resolvable(pkg.imports[j], mods)
    THEN CHOOSE j \in 1 .. Len(pkg.imports) :
            /\ ~Resolvable(pkg.imports[j], mods)
            /\ \A n \in 1 .. j - 1 : Resolvable(pkg.imports[n], mods)
    ELSE Len(pkg.imports)

ExpectedTries(pkg, mods) ==
    IF pkg.imports = <<>> THEN <<0>>
    ELSE [j \in 1 .. FirstUnresolved(pkg, mods) |-> j]

\* C23: _are_imports_available answers true exactly when every ImportSpec of
\* the requirement resolves (the bare name, for a requirement without
\* ImportSpecs), and every probe that an operation makes tries the
\* ImportSpecs in declaration order and none after the first that does not
\* resolve.  (Probes in which an import fails with something other than
\* ImportError have no answer and are set aside.)
C23_AvailableIffAllResolve ==
    [][\A i \in 1 .. Len(packages') :
          AreImportsAvailable(packages'[i], i, importable).result \in {"True", "False"}
          => /\ (AreImportsAvailable(packages'[i], i, importable).result = "True")
                  <=> Available(packages'[i], importable)
             /\ TriedFor(log', i) # <<>>
                => /\ TriedFor(log', i)
                        = AreImportsAvailable(packages'[i], i, importable).events
                   /\ [n \in 1 .. Len(TriedFor(log', i)) |-> TriedFor(log', i)[n].imp]
                        = ExpectedTries(packages'[i], importable)
                   /\ \A n \in 1 .. Len(TriedFor(log', i)) :
                         (TriedFor(log', i)[n].arg = <<"ok">>)
                         <=> (n < Len(TriedFor(log', i))
                              \/ Available(packages'[i], importable))
      ]_vars

\* A probe of a requirement with three ImportSpecs of which the first
\* resolves and the second does not: the third is not tried.
C23_Witness ==
    \E i \in 1 .. Len(packages) :
       /\ Len(packages[i].imports) = 3
       /\ Len(TriedFor(log, i)) = 2
       /\ TriedFor(log, i)[1].arg = <<"ok">>
       /\ TriedFor(log, i)[2].arg = <<"ImportError">>

\* The probes of l in which the import failed with something other than
\* ImportError.
ProbeFailures(l) ==
    {k \in EvsIn(l, "try_import") : l[k].arg = <<"OtherError">>}

\* Requirement i was found unresolvable by a probe of l.
FoundUnresolvable(l, i) ==
    \E k \in EvsIn(l, "try_import") : l[k].pkg = i /\ l[k].arg = <<"ImportError">>

\* The requirements that l treats as unavailable: handed to pip, or warned
\* about as missing.
TreatedAsMissing(l) ==
    {l[k].pkg : k \in EvsIn(l, "pip") \cup EvsIn(l, "warn_missing")}

\* C24: a requirement is treated as unavailable only when one of its probes
\* ended with ImportError.  A probe that fails with anything else ends the
\* operation: the failure propagates to the caller (out of __exit__ too),
\* nothing is probed after it, pip is not invoked, nothing is bound and the
\* body of immediately_install_package does not run.
C24_OtherFailuresPropagate ==
    [][/\ \A i \in TreatedAsMissing(log') : FoundUnresolvable(log', i)
       /\ \A k \in ProbeFailures(log') :
             /\ raised' # None
             /\ op' # "immediately_install_package" => raised' = "OtherError"
             /\ \A n \in DOMAIN log' :
                   n > k => log'[n].ev \in {"raise", "print"}
             /\ \A n \in DOMAIN log' :
                   log'[n].ev \notin BeyondProbe \cup {"warn_missing", "exit", "yield"}
             /\ caller_globals' = caller_globals
             /\ importable' = importable
      ]_vars

\* A scope exit with install_if_missing in which a non-optional requirement
\* was found unresolvable and the probe of a later one failed otherwise.
C24_Witness ==
    /\ op = "exit"
    /\ install_if_missing
    /\ raised = "OtherError"
    /\ ProbeFailures(log) # {}
    /\ \E i \in 1 .. Len(packages) : ~packages[i].optional /\ FoundUnresolvable(log, i)

\* The requirements whose installed version is queried in the events l.
VersionQueriedFor(l) == {l[k].pkg : k \in EvsIn(l, "version")}

\* C25: the installed version is queried only for a requirement that was in
\* the missing set when the operation began, directly after pip exited 0 for
\* it; a requirement that was available then is never version-checked.
C25_VersionCheckedOnlyAfterInstall ==
    [][/\ \A k \in EvsIn(log', "version") :
             /\ log'[k].pkg \in MissingRequired(packages', importable)
             /\ k > 1
             /\ log'[k - 1].ev = "completed"
             /\ log'[k - 1].pkg = log'[k].pkg
             /\ log'[k - 1].arg.returncode = 0
       /\ \A i \in 1 .. Len(packages') :
             Available(packages'[i], importable) => i \notin VersionQueriedFor(log')
      ]_vars

\* A scope exit with install_if_missing that ended without error and bound the
\* import of a requirement with a declared constraint, which was available
\* when the scope was left and whose installed version was never queried,
\* while another requirement was installed and version-checked.
C25_Witness ==
    /\ op = "exit"
    /\ install_if_missing
    /\ raised = None
    /\ VersionQueriedFor(log) # {}
    /\ \E i \in 1 .. Len(packages) :
          /\ DeclaredConstraint(packages[i])
          /\ TriedFor(log, i) # <<>>
          /\ \A n \in 1 .. Len(TriedFor(log, i)) : TriedFor(log, i)[n].arg = <<"ok">>
          /\ i \notin VersionQueriedFor(log)
          /\ \E k \in EvsIn(log, "bind") : log[k].pkg = i

\* C26: a requirement for which pip exited 0 in an earlier operation on this
\* manager, and whose ImportSpecs all resolve when a later operation begins,
\* is not handed to pip by that operation.
C26_InstalledNotReinstalled ==
    [][\A i \in session.installed :
          Available(packages'[i], importable) => i \notin PipFor(log')
      ]_vars

\* A scope exit that invoked pip for one requirement and not for another that
\* an earlier operation had installed and that the probe found available.
C26_Witness ==
    /\ op = "exit"
    /\ PipFor(log) # {}
    /\ \E i \in session.installed \ PipFor(log) :
          /\ ~packages[i].optional
          /\ TriedFor(log, i) # <<>>
          /\ \A n \in 1 .. Len(TriedFor(log, i)) : TriedFor(log, i)[n].arg = <<"ok">>

====
